---- MODULE Spec2Model ----
(***************************************************************************)
(* Model of the kompose command actions (package app).                     *)
(*                                                                         *)
(*   SpecKuber : ProjectKuber, the compose -> cluster resource conversion  *)
(*   Spec      : the project-lifecycle command actions (ps, port, stop,    *)
(*               down, build, create, up, run, start, restart, log, pull,  *)
(*               delete, kill, pause, unpause, scale), with the foreground *)
(*               "up" goroutines, the scale argument loop and the delete   *)
(*               confirmation callback modelled step by step.              *)
(*                                                                         *)
(* Strings that the code parses (ports, scale arguments, the answer line)  *)
(* are sequences of one-character strings; strings that the code only      *)
(* compares (restart policy, names, messages) are TLA+ strings.            *)
(***************************************************************************)
EXTENDS Integers, Sequences, FiniteSets, TLC

\* ------------------------------------------------------------------ bounds
MaxServices == 2
MaxPorts == 1
MaxCreateFailures == 1
MaxArgs == 2
MaxLine == 3
MaxSignals == 2

\* ---------------------------------------------------------------- strconv
Digits == <<"0", "1", "2", "3", "4", "5", "6", "7", "8", "9">>

IsDigit(c) == \E i \in 1..10 : Digits[i] = c

DigitVal(c) == (CHOOSE i \in 1..10 : Digits[i] = c) - 1

RECURSIVE DecimalValue(_)
DecimalValue(s) ==
    IF s = <<>> THEN 0
    ELSE DecimalValue(SubSeq(s, 1, Len(s) - 1)) * 10 + DigitVal(s[Len(s)])

\* strconv.Atoi: an optional sign, then one or more decimal digits.  The
\* strings of the model are far too short to leave the range of int.
Atoi(s) ==
    LET neg  == s # <<>> /\ s[1] = "-"
        body == IF s # <<>> /\ s[1] \in {"+", "-"} THEN Tail(s) ELSE s
    IN  IF body = <<>> \/ \E i \in 1..Len(body) : ~IsDigit(body[i])
        THEN [err |-> TRUE, val |-> 0]
        ELSE [err |-> FALSE,
              val |-> IF neg THEN 0 - DecimalValue(body) ELSE DecimalValue(body)]

\* ================================================================ variables
VARIABLES
    \* ProjectKuber
    kpc,            \* position in ProjectKuber
    configs,        \* p.Configs: service name -> service definition
    remaining,      \* services the range loop has not visited yet
    cur,            \* name of the service of the current iteration
    rc,             \* the replication controller being built
    sc,             \* the network service being built
    submitted,      \* Create calls issued to the cluster API, in order
    kfatal,         \* which logrus.Fatalf ended the run ("" if none)
    \* lifecycle commands
    cmd,            \* the command whose action runs
    pc,             \* position of the action's main flow
    flags,          \* the boolean flags the actions read
    args,           \* c.Args()
    result,         \* how the action / the process ended
    libCalls,       \* library calls made so far, in order
    \* ProjectScale
    argIdx,         \* index of the argument the loop is at
    servicesScale,  \* the map built by the loop
    \* ProjectDelete
    callback,       \* whether options.BeforeDeleteCallback is set
    stdin,          \* what fmt.Scanln will find on standard input
    answerOK,       \* the callback's return value: "none" before it ran, then "true" or "false"
    \* ProjectUp
    ctxCancelled,   \* the shared context was cancelled
    notified,       \* signal.Notify has registered signalChan
    signalChan,     \* number of signals buffered in signalChan (cap 1)
    sigsSent,       \* signals the environment delivered to the process
    sigsQueued,     \* signals that were put on signalChan
    logPc,          \* position of the log goroutine
    logErr,         \* the value p.Log returned
    selPc,          \* position of the select goroutine
    selBranch,      \* the branch the select took
    cancelCalls,    \* calls of cancelFun
    stopCalls,      \* calls of ProjectStop made by the select goroutine
    stopDone,       \* of these, how many have returned
    cleanupSends,   \* values delivered on cleanupDone
    sigAtSelect     \* a signal was queued while the select had not chosen

kvars == <<kpc, configs, remaining, cur, rc, sc, submitted, kfatal>>

cvars == <<cmd, pc, flags, args, result, libCalls>>

svars == <<argIdx, servicesScale>>

dvars == <<callback, stdin, answerOK>>

uvars == <<ctxCancelled, notified, signalChan, sigsSent, sigsQueued, logPc,
           logErr, selPc, selBranch, cancelCalls, stopCalls, stopDone,
           cleanupSends, sigAtSelect>>

lvars == <<cvars, svars, dvars, uvars>>

vars == <<kvars, lvars>>

\* =========================================================== ProjectKuber
ServiceNames == <<"web", "db", "cache", "queue">>

NameOf(i) == ServiceNames[i]

\* Port strings a compose file may carry: plain numbers and a host:container
\* mapping.
PortStrings == {<<"8", "0">>, <<"8", "0", ":", "8", "0">>}

RestartStrings == {"", "always", "no", "on-failure", "unless-stopped"}

RECURSIVE SeqsUpTo(_, _)
SeqsUpTo(S, n) ==
    IF n = 0 THEN {<<>>}
    ELSE LET shorter == SeqsUpTo(S, n - 1)
         IN  shorter \cup {Append(q, x) : q \in {r \in shorter : Len(r) = n - 1}, x \in S}

ServiceDefs ==
    [Image : {"nginx"}, Ports : SeqsUpTo(PortStrings, MaxPorts), Restart : RestartStrings]

Descriptors ==
    UNION {[{NameOf(i) : i \in 1..n} -> ServiceDefs] : n \in 0..MaxServices}

NoLabels == [service |-> ""]

NoRC == [Kind |-> "", Name |-> "", Labels |-> NoLabels, Replicas |-> 0,
         Selector |-> NoLabels, TemplateLabels |-> NoLabels, ContainerName |-> "",
         Image |-> "", Ports |-> <<>>, RestartPolicy |-> ""]

NoSC == [Kind |-> "", Name |-> "", Labels |-> NoLabels, Selector |-> NoLabels,
         Ports |-> <<>>]

NewReplicationController(name, service) ==
    [Kind |-> "ReplicationController", Name |-> name,
     Labels |-> [service |-> name], Replicas |-> 1,
     Selector |-> [service |-> name],
     TemplateLabels |-> [service |-> name],
     ContainerName |-> name, Image |-> service.Image,
     Ports |-> <<>>, RestartPolicy |-> ""]

\* The selector is keyed "app" while the pods are labelled "service".
NewService_KeyedApp(name) ==
    [Kind |-> "Service", Name |-> name, Labels |-> [service |-> name],
     Selector |-> [app |-> name], Ports |-> <<>>]

NewService(name) ==
    [Kind |-> "Service", Name |-> name, Labels |-> [service |-> name],
     Selector |-> [service |-> name], Ports |-> <<>>]

\* The port loops: the numbers parsed so far, or the first port Atoi rejects.
RECURSIVE ParsePorts(_)
ParsePorts(ports) ==
    IF ports = <<>> THEN [err |-> FALSE, nums |-> <<>>]
    ELSE LET n == Atoi(Head(ports))
         IN  IF n.err THEN [err |-> TRUE, nums |-> <<>>]
             ELSE LET rest == ParsePorts(Tail(ports))
                  IN  IF rest.err THEN rest
                      ELSE [err |-> FALSE, nums |-> <<n.val>> \o rest.nums]

RestartPolicyOf(restart) ==
    CASE restart \in {"", "always"} -> "Always"
      [] restart = "no"             -> "Never"
      [] restart = "on-failure"     -> "OnFailure"
      [] OTHER                      -> "unknown"

CreateFailures == Cardinality({i \in 1..Len(submitted) : ~submitted[i].ok})

CreateOutcomes ==
    IF CreateFailures < MaxCreateFailures THEN {TRUE, FALSE} ELSE {TRUE}

InitKuberVars ==
    /\ kpc = "start"
    /\ configs \in Descriptors
    /\ remaining = {}
    /\ cur = ""
    /\ rc = NoRC
    /\ sc = NoSC
    /\ submitted = <<>>
    /\ kfatal = ""

\* Lines 79-108: parse the compose file, create the output directory, read
\* the API server address, create the client.  Each of the four checks ends
\* the run when the environment fails it.
KuberSetup ==
    /\ kpc = "start"
    /\ \E failure \in {"", "parse", "mkdir", "readconfig", "noserver"} :
          IF failure = ""
          THEN /\ kpc' = "range"
               /\ remaining' = DOMAIN configs
               /\ kfatal' = kfatal
          ELSE /\ kpc' = "fatal"
               /\ kfatal' = failure
               /\ remaining' = remaining
    /\ UNCHANGED <<configs, cur, rc, sc, submitted, lvars>>

\* Line 110: the range over the map takes the services in an arbitrary
\* order.  Lines 111-150: both descriptors are built.
KuberRange ==
    /\ kpc = "range"
    /\ remaining # {}
    /\ \E name \in remaining :
          /\ cur' = name
          /\ remaining' = remaining \ {name}
          /\ rc' = NewReplicationController(name, configs[name])
          /\ sc' = NewService(name)
    /\ kpc' = "containerPorts"
    /\ UNCHANGED <<configs, submitted, kfatal, lvars>>

KuberRangeEnd ==
    /\ kpc = "range"
    /\ remaining = {}
    /\ kpc' = "done"
    /\ UNCHANGED <<configs, remaining, cur, rc, sc, submitted, kfatal, lvars>>

\* Lines 152-162.
KuberContainerPorts ==
    /\ kpc = "containerPorts"
    /\ LET parsed == ParsePorts(configs[cur].Ports)
       IN  IF parsed.err
           THEN /\ kpc' = "fatal"
                /\ kfatal' = "port"
                /\ rc' = rc
           ELSE /\ kpc' = "servicePorts"
                /\ kfatal' = kfatal
                /\ rc' = [rc EXCEPT !.Ports = parsed.nums]
    /\ UNCHANGED <<configs, remaining, cur, sc, submitted, lvars>>

\* Lines 164-173.
KuberServicePorts ==
    /\ kpc = "servicePorts"
    /\ LET parsed == ParsePorts(configs[cur].Ports)
       IN  IF parsed.err
           THEN /\ kpc' = "fatal"
                /\ kfatal' = "port"
                /\ sc' = sc
           ELSE /\ kpc' = "restart"
                /\ kfatal' = kfatal
                /\ sc' = [sc EXCEPT !.Ports = parsed.nums]
    /\ UNCHANGED <<configs, remaining, cur, rc, submitted, lvars>>

\* Lines 175-190.  Marshalling the plain-data descriptor cannot fail and its
\* result is not used.
KuberRestartPolicy ==
    /\ kpc = "restart"
    /\ LET policy == RestartPolicyOf(configs[cur].Restart)
       IN  IF policy = "unknown"
           THEN /\ kpc' = "fatal"
                /\ kfatal' = "restart"
                /\ rc' = rc
           ELSE /\ kpc' = "createRC"
                /\ kfatal' = kfatal
                /\ rc' = [rc EXCEPT !.RestartPolicy = policy]
    /\ UNCHANGED <<configs, remaining, cur, sc, submitted, lvars>>

\* A failed Create moves on to the next service.
KuberCreateRC_ContinueOnError ==
    /\ kpc = "createRC"
    /\ \E ok \in CreateOutcomes :
          /\ submitted' = Append(submitted, [kind |-> "rc", obj |-> rc, ok |-> ok])
          /\ kpc' = IF ok THEN "createSVC" ELSE "range"
    /\ UNCHANGED <<configs, remaining, cur, rc, sc, kfatal, lvars>>

\* Lines 192-196: the error of Create is printed, nothing else.
KuberCreateRC ==
    /\ kpc = "createRC"
    /\ \E ok \in CreateOutcomes :
          submitted' = Append(submitted, [kind |-> "rc", obj |-> rc, ok |-> ok])
    /\ kpc' = "createSVC"
    /\ UNCHANGED <<configs, remaining, cur, rc, sc, kfatal, lvars>>

\* Lines 198-202.
KuberCreateSVC ==
    /\ kpc = "createSVC"
    /\ \E ok \in CreateOutcomes :
          submitted' = Append(submitted, [kind |-> "svc", obj |-> sc, ok |-> ok])
    /\ kpc' = "range"
    /\ UNCHANGED <<configs, remaining, cur, rc, sc, kfatal, lvars>>

ProjectKuber ==
    \/ KuberSetup
    \/ KuberRange
    \/ KuberRangeEnd
    \/ KuberContainerPorts
    \/ KuberServicePorts
    \/ KuberRestartPolicy
    \/ KuberCreateRC
    \/ KuberCreateSVC

\* ===================================================== lifecycle commands
Commands == {"ps", "port", "stop", "down", "build", "create", "up", "run",
             "start", "restart", "log", "pull", "delete", "kill", "pause",
             "unpause", "scale"}

\* Errors a library call may return; NoErr is the nil error.
NoErr == [nil |-> TRUE, msg |-> ""]

LibErrors == {NoErr,
              [nil |-> FALSE, msg |-> "no such service"],
              [nil |-> FALSE, msg |-> "daemon unreachable"]}

Running == [kind |-> "running", code |-> 0, msg |-> ""]

ReturnNil == [kind |-> "nil", code |-> 0, msg |-> ""]

\* cli.NewExitError(msg, code)
NewExitError(msg, code) == [kind |-> "exit", code |-> code, msg |-> msg]

\* logrus.Fatal: the message is logged and the process exits with status 1.
Fatal(msg) == [kind |-> "fatal", code |-> 1, msg |-> msg]

Panic == [kind |-> "panic", code |-> 2, msg |-> "index out of range"]

\* The default disposition of SIGINT/SIGTERM while no handler is registered.
Killed == [kind |-> "killed", code |-> 130, msg |-> ""]

Alive == result.kind = "running"

Call(fn, err) == [fn |-> fn, err |-> err]

\* Arguments of the scale command: well formed, without '=', with a second
\* '=', with a word, with nothing and with a negative number after the '='.
ScaleArgStrings == {<<"w", "=", "2">>, <<"w">>, <<"w", "=", "1", "=", "2">>,
                    <<"w", "=", "x">>, <<"w", "=">>, <<"d", "=", "-", "1">>}

ArgsFor(c) ==
    IF c = "scale" THEN SeqsUpTo(ScaleArgStrings, MaxArgs)
    ELSE SeqsUpTo({<<"w">>}, MaxArgs)

LineChars == {"y", "Y", "n", " "}

\* Standard input: a read that fails, or one line (without its newline).
StdinFor(c) ==
    IF c = "delete"
    THEN {[closed |-> TRUE, line |-> <<>>]}
         \cup [closed : {FALSE}, line : SeqsUpTo(LineChars, MaxLine)]
    ELSE {[closed |-> TRUE, line |-> <<>>]}

FlagSets == [d : BOOLEAN, force : BOOLEAN, ignorePull : BOOLEAN]

InitCmdVars ==
    /\ cmd \in Commands
    /\ pc = "start"
    /\ flags \in FlagSets
    /\ args \in ArgsFor(cmd)
    /\ result = Running
    /\ libCalls = <<>>
    /\ argIdx = 1
    /\ servicesScale = <<>>
    /\ callback = FALSE
    /\ stdin \in StdinFor(cmd)
    /\ answerOK = "none"
    /\ ctxCancelled = FALSE
    /\ notified = FALSE
    /\ signalChan = 0
    /\ sigsSent = 0
    /\ sigsQueued = 0
    /\ logPc = "idle"
    /\ logErr = NoErr
    /\ selPc = "idle"
    /\ selBranch = "none"
    /\ cancelCalls = 0
    /\ stopCalls = 0
    /\ stopDone = 0
    /\ cleanupSends = 0
    /\ sigAtSelect = FALSE

ProjectPs ==
    /\ cmd = "ps"
    /\ pc = "start"
    /\ \E err \in LibErrors :
          /\ libCalls' = Append(libCalls, Call("Ps", err))
          /\ result' = IF ~err.nil THEN NewExitError(err.msg, 1) ELSE ReturnNil
    /\ pc' = "done"
    /\ UNCHANGED <<cmd, flags, args, kvars, svars, dvars, uvars>>

ProjectPort ==
    /\ cmd = "port"
    /\ pc = "start"
    /\ IF Len(args) # 2
       THEN /\ result' = NewExitError("Please pass arguments in the form: SERVICE PORT", 1)
            /\ libCalls' = libCalls
       ELSE \E err \in LibErrors :
               /\ libCalls' = Append(libCalls, Call("Port", err))
               /\ result' = IF ~err.nil THEN NewExitError(err.msg, 1) ELSE ReturnNil
    /\ pc' = "done"
    /\ UNCHANGED <<cmd, flags, args, kvars, svars, dvars, uvars>>

\* The error of p.Stop is dropped.
ProjectStop_DropError ==
    /\ cmd = "stop"
    /\ pc = "start"
    /\ \E err \in LibErrors :
          /\ libCalls' = Append(libCalls, Call("Stop", err))
          /\ result' = ReturnNil
    /\ pc' = "done"
    /\ UNCHANGED <<cmd, flags, args, kvars, svars, dvars, uvars>>

ProjectStop ==
    /\ cmd = "stop"
    /\ pc = "start"
    /\ \E err \in LibErrors :
          /\ libCalls' = Append(libCalls, Call("Stop", err))
          /\ result' = IF ~err.nil THEN NewExitError(err.msg, 1) ELSE ReturnNil
    /\ pc' = "done"
    /\ UNCHANGED <<cmd, flags, args, kvars, svars, dvars, uvars>>

ProjectDown ==
    /\ cmd = "down"
    /\ pc = "start"
    /\ \E err \in LibErrors :
          /\ libCalls' = Append(libCalls, Call("Down", err))
          /\ result' = IF ~err.nil THEN NewExitError(err.msg, 1) ELSE ReturnNil
    /\ pc' = "done"
    /\ UNCHANGED <<cmd, flags, args, kvars, svars, dvars, uvars>>

ProjectBuild ==
    /\ cmd = "build"
    /\ pc = "start"
    /\ \E err \in LibErrors :
          /\ libCalls' = Append(libCalls, Call("Build", err))
          /\ result' = IF ~err.nil THEN NewExitError(err.msg, 1) ELSE ReturnNil
    /\ pc' = "done"
    /\ UNCHANGED <<cmd, flags, args, kvars, svars, dvars, uvars>>

ProjectCreate ==
    /\ cmd = "create"
    /\ pc = "start"
    /\ \E err \in LibErrors :
          /\ libCalls' = Append(libCalls, Call("Create", err))
          /\ result' = IF ~err.nil THEN NewExitError(err.msg, 1) ELSE ReturnNil
    /\ pc' = "done"
    /\ UNCHANGED <<cmd, flags, args, kvars, svars, dvars, uvars>>

RunExitCodes == {0, 3}

ProjectRun ==
    /\ cmd = "run"
    /\ pc = "start"
    /\ IF Len(args) = 1
       THEN /\ result' = Fatal("No service specified")
            /\ libCalls' = libCalls
       ELSE IF Len(args) = 0
       THEN /\ result' = Panic
            /\ libCalls' = libCalls
       ELSE \E err \in LibErrors, exitCode \in RunExitCodes :
               /\ libCalls' = Append(libCalls, Call("Run", err))
               /\ result' = IF ~err.nil THEN NewExitError(err.msg, 1)
                            ELSE NewExitError("", exitCode)
    /\ pc' = "done"
    /\ UNCHANGED <<cmd, flags, args, kvars, svars, dvars, uvars>>

ProjectStart ==
    /\ cmd = "start"
    /\ pc = "start"
    /\ \E err \in LibErrors :
          /\ libCalls' = Append(libCalls, Call("Start", err))
          /\ result' = IF ~err.nil THEN NewExitError(err.msg, 1) ELSE ReturnNil
    /\ pc' = "done"
    /\ UNCHANGED <<cmd, flags, args, kvars, svars, dvars, uvars>>

ProjectRestart ==
    /\ cmd = "restart"
    /\ pc = "start"
    /\ \E err \in LibErrors :
          /\ libCalls' = Append(libCalls, Call("Restart", err))
          /\ result' = IF ~err.nil THEN NewExitError(err.msg, 1) ELSE ReturnNil
    /\ pc' = "done"
    /\ UNCHANGED <<cmd, flags, args, kvars, svars, dvars, uvars>>

ProjectLog ==
    /\ cmd = "log"
    /\ pc = "start"
    /\ \E err \in LibErrors :
          /\ libCalls' = Append(libCalls, Call("Log", err))
          /\ result' = IF ~err.nil THEN NewExitError(err.msg, 1) ELSE ReturnNil
    /\ pc' = "done"
    /\ UNCHANGED <<cmd, flags, args, kvars, svars, dvars, uvars>>

ProjectPull ==
    /\ cmd = "pull"
    /\ pc = "start"
    /\ \E err \in LibErrors :
          /\ libCalls' = Append(libCalls, Call("Pull", err))
          /\ result' = IF ~err.nil /\ ~flags.ignorePull
                       THEN NewExitError(err.msg, 1) ELSE ReturnNil
    /\ pc' = "done"
    /\ UNCHANGED <<cmd, flags, args, kvars, svars, dvars, uvars>>

ProjectKill ==
    /\ cmd = "kill"
    /\ pc = "start"
    /\ \E err \in LibErrors :
          /\ libCalls' = Append(libCalls, Call("Kill", err))
          /\ result' = IF ~err.nil THEN NewExitError(err.msg, 1) ELSE ReturnNil
    /\ pc' = "done"
    /\ UNCHANGED <<cmd, flags, args, kvars, svars, dvars, uvars>>

ProjectPause ==
    /\ cmd = "pause"
    /\ pc = "start"
    /\ \E err \in LibErrors :
          /\ libCalls' = Append(libCalls, Call("Pause", err))
          /\ result' = IF ~err.nil THEN NewExitError(err.msg, 1) ELSE ReturnNil
    /\ pc' = "done"
    /\ UNCHANGED <<cmd, flags, args, kvars, svars, dvars, uvars>>

ProjectUnpause ==
    /\ cmd = "unpause"
    /\ pc = "start"
    /\ \E err \in LibErrors :
          /\ libCalls' = Append(libCalls, Call("Unpause", err))
          /\ result' = IF ~err.nil THEN NewExitError(err.msg, 1) ELSE ReturnNil
    /\ pc' = "done"
    /\ UNCHANGED <<cmd, flags, args, kvars, svars, dvars, uvars>>

\* ----------------------------------------------------------- ProjectScale
\* strings.SplitN(arg, "=", 2): the text before and after the first '=', or
\* the argument alone when it has none.
SplitN2(s) ==
    IF \E i \in 1..Len(s) : s[i] = "="
    THEN LET i == CHOOSE k \in 1..Len(s) :
                     /\ s[k] = "="
                     /\ \A j \in 1..(k - 1) : s[j] # "="
         IN  <<SubSeq(s, 1, i - 1), SubSeq(s, i + 1, Len(s))>>
    ELSE <<s>>

MapSet(m, k, v) == [x \in DOMAIN m \cup {k} |-> IF x = k THEN v ELSE m[x]]

\* A count that does not parse is skipped instead of ending the command.
ScaleArg_SkipBadCount ==
    /\ cmd = "scale"
    /\ pc = "start"
    /\ argIdx <= Len(args)
    /\ LET arg   == args[argIdx]
           kv    == SplitN2(arg)
           count == Atoi(kv[2])
       IN  IF Len(kv) # 2
           THEN /\ result' = NewExitError("Invalid scale parameter", 2)
                /\ pc' = "done"
                /\ UNCHANGED svars
           ELSE IF count.err
           THEN /\ argIdx' = argIdx + 1
                /\ UNCHANGED <<result, pc, servicesScale>>
           ELSE /\ servicesScale' = MapSet(servicesScale, kv[1], count.val)
                /\ argIdx' = argIdx + 1
                /\ UNCHANGED <<result, pc>>
    /\ UNCHANGED <<cmd, flags, args, libCalls, kvars, dvars, uvars>>

\* Lines 426-440: one iteration of the argument loop.
ScaleArg ==
    /\ cmd = "scale"
    /\ pc = "start"
    /\ argIdx <= Len(args)
    /\ LET arg   == args[argIdx]
           kv    == SplitN2(arg)
           count == Atoi(kv[2])
       IN  IF Len(kv) # 2
           THEN /\ result' = NewExitError("Invalid scale parameter", 2)
                /\ pc' = "done"
                /\ UNCHANGED svars
           ELSE IF count.err
           THEN /\ result' = NewExitError("Invalid scale parameter", 2)
                /\ pc' = "done"
                /\ UNCHANGED svars
           ELSE /\ servicesScale' = MapSet(servicesScale, kv[1], count.val)
                /\ argIdx' = argIdx + 1
                /\ UNCHANGED <<result, pc>>
    /\ UNCHANGED <<cmd, flags, args, libCalls, kvars, dvars, uvars>>

\* Lines 442-446.
ScaleCall ==
    /\ cmd = "scale"
    /\ pc = "start"
    /\ argIdx > Len(args)
    /\ \E err \in LibErrors :
          /\ libCalls' = Append(libCalls, [fn |-> "Scale", err |-> err, arg |-> servicesScale])
          /\ result' = IF ~err.nil THEN NewExitError(err.msg, 1) ELSE ReturnNil
    /\ pc' = "done"
    /\ UNCHANGED <<cmd, flags, args, kvars, svars, dvars, uvars>>

ProjectScale == ScaleArg \/ ScaleCall

\* ---------------------------------------------------------- ProjectDelete
IsSpace(c) == c = " "

RECURSIVE SkipSpace(_)
SkipSpace(s) ==
    IF s # <<>> /\ IsSpace(Head(s)) THEN SkipSpace(Tail(s)) ELSE s

RECURSIVE Token(_)
Token(s) ==
    IF s = <<>> \/ IsSpace(Head(s)) THEN <<>> ELSE <<Head(s)>> \o Token(Tail(s))

\* fmt.Scanln(&answer): leading blanks are skipped, the operand takes the
\* characters up to the next blank, and only blanks may follow before the
\* newline.  A failed read, an empty line and a second word are errors; the
\* operand keeps what was stored before the error.
Scanln(in) ==
    IF in.closed THEN [err |-> TRUE, answer |-> <<>>]
    ELSE LET body  == SkipSpace(in.line)
             tok   == Token(body)
             after == SubSeq(body, Len(tok) + 1, Len(body))
         IN  IF body = <<>> THEN [err |-> TRUE, answer |-> <<>>]
             ELSE IF SkipSpace(after) # <<>> THEN [err |-> TRUE, answer |-> tok]
             ELSE [err |-> FALSE, answer |-> tok]

\* The error of Scanln is not looked at.
BeforeDeleteCallback_IgnoreErr(in) ==
    LET scan == Scanln(in)
    IN  IF scan.answer # <<"y">> /\ scan.answer # <<"Y">> THEN FALSE
        ELSE TRUE

\* Lines 375-387: the callback's return value.
BeforeDeleteCallback(in) ==
    LET scan == Scanln(in)
    IN  IF scan.err THEN FALSE
        ELSE IF scan.answer # <<"y">> /\ scan.answer # <<"Y">> THEN FALSE
        ELSE TRUE

\* Lines 371-388: the callback is registered unless --force is given; then
\* p.Delete is entered.
DeleteRegister ==
    /\ cmd = "delete"
    /\ pc = "start"
    /\ callback' = ~flags.force
    /\ pc' = "inDelete"
    /\ UNCHANGED <<cmd, flags, args, result, libCalls, stdin, answerOK,
                   kvars, svars, uvars>>

\* The library asks for confirmation through the registered callback.
DeleteConfirm ==
    /\ cmd = "delete"
    /\ pc = "inDelete"
    /\ callback
    /\ answerOK = "none"
    /\ answerOK' = IF BeforeDeleteCallback(stdin) THEN "true" ELSE "false"
    /\ UNCHANGED <<cmd, pc, flags, args, result, libCalls, callback, stdin,
                   kvars, svars, uvars>>

\* Lines 389-393: p.Delete returns.
DeleteReturn ==
    /\ cmd = "delete"
    /\ pc = "inDelete"
    /\ \E err \in LibErrors :
          /\ libCalls' = Append(libCalls, Call("Delete", err))
          /\ result' = IF ~err.nil THEN NewExitError(err.msg, 1) ELSE ReturnNil
    /\ pc' = "done"
    /\ UNCHANGED <<cmd, flags, args, kvars, svars, dvars, uvars>>

ProjectDelete == DeleteRegister \/ DeleteConfirm \/ DeleteReturn

\* -------------------------------------------------------------- ProjectUp
\* Lines 284-288: p.Up.
UpCall ==
    /\ cmd = "up"
    /\ pc = "start"
    /\ Alive
    /\ \E err \in LibErrors :
          /\ libCalls' = Append(libCalls, Call("Up", err))
          /\ IF ~err.nil
             THEN /\ result' = NewExitError(err.msg, 1)
                  /\ pc' = "done"
             ELSE /\ result' = result
                  /\ pc' = "afterUp"
    /\ UNCHANGED <<cmd, flags, args, kvars, svars, dvars, uvars>>

\* Lines 289, 314: with -d the action returns at once.
UpDetached ==
    /\ cmd = "up"
    /\ pc = "afterUp"
    /\ Alive
    /\ flags.d
    /\ result' = ReturnNil
    /\ pc' = "done"
    /\ UNCHANGED <<cmd, flags, args, libCalls, kvars, svars, dvars, uvars>>

\* Lines 290-310: the channels are made, the signals are routed to
\* signalChan and both goroutines are started.
UpForeground ==
    /\ cmd = "up"
    /\ pc = "afterUp"
    /\ Alive
    /\ ~flags.d
    /\ notified' = TRUE
    /\ logPc' = "log"
    /\ selPc' = "select"
    /\ pc' = "waitCleanup"
    /\ UNCHANGED <<cmd, flags, args, result, libCalls, kvars, svars, dvars,
                   ctxCancelled, signalChan, sigsSent, sigsQueued, logErr,
                   selBranch, cancelCalls, stopCalls, stopDone, cleanupSends,
                   sigAtSelect>>

\* The environment sends SIGINT or SIGTERM.  Without a registered handler the
\* process dies; with it the signal goes to signalChan unless its one slot
\* is taken.
Signal ==
    /\ cmd = "up"
    /\ Alive
    /\ sigsSent < MaxSignals
    /\ sigsSent' = sigsSent + 1
    /\ IF ~notified
       THEN /\ result' = Killed
            /\ UNCHANGED <<signalChan, sigsQueued, sigAtSelect>>
       ELSE /\ result' = result
            /\ IF signalChan = 0
               THEN /\ signalChan' = 1
                    /\ sigsQueued' = sigsQueued + 1
                    /\ sigAtSelect' = (sigAtSelect \/ selPc = "select")
               ELSE UNCHANGED <<signalChan, sigsQueued, sigAtSelect>>
    /\ UNCHANGED <<cmd, pc, flags, args, libCalls, kvars, svars, dvars,
                   ctxCancelled, notified, logPc, logErr, selPc, selBranch,
                   cancelCalls, stopCalls, stopDone, cleanupSends>>

\* Line 295: p.Log returns, because the stream ended or because it saw the
\* cancellation; the goroutine then offers the result on errChan.
LogReturn ==
    /\ Alive
    /\ logPc = "log"
    /\ \E err \in LibErrors :
          /\ logErr' = err
          /\ libCalls' = Append(libCalls, Call("Log", err))
    /\ logPc' = "sendErr"
    /\ UNCHANGED <<cmd, pc, flags, args, result, kvars, svars, dvars,
                   ctxCancelled, notified, signalChan, sigsSent, sigsQueued,
                   selPc, selBranch, cancelCalls, stopCalls, stopDone,
                   cleanupSends, sigAtSelect>>

\* Lines 298-300: the select takes the signal.
SelectSignal ==
    /\ Alive
    /\ selPc = "select"
    /\ signalChan > 0
    /\ signalChan' = signalChan - 1
    /\ selBranch' = "signal"
    /\ selPc' = "cancel"
    /\ UNCHANGED <<cvars, kvars, svars, dvars, ctxCancelled, notified,
                   sigsSent, sigsQueued, logPc, logErr, cancelCalls,
                   stopCalls, stopDone, cleanupSends, sigAtSelect>>

\* The error check is missing: any log result signals completion.
SelectErr_NoFatal ==
    /\ Alive
    /\ selPc = "select"
    /\ logPc = "sendErr"
    /\ logPc' = "exit"
    /\ selBranch' = "err"
    /\ result' = result
    /\ selPc' = "sendCleanup"
    /\ UNCHANGED <<cmd, pc, flags, args, libCalls, kvars, svars, dvars,
                   ctxCancelled, notified, signalChan, sigsSent, sigsQueued,
                   logErr, cancelCalls, stopCalls, stopDone, cleanupSends,
                   sigAtSelect>>

\* Lines 304-307: the select takes the result of the log goroutine, which
\* ends; a non-nil error is fatal.
SelectErr ==
    /\ Alive
    /\ selPc = "select"
    /\ logPc = "sendErr"
    /\ logPc' = "exit"
    /\ selBranch' = "err"
    /\ IF ~logErr.nil
       THEN /\ result' = Fatal(logErr.msg)
            /\ selPc' = "exit"
       ELSE /\ result' = result
            /\ selPc' = "sendCleanup"
    /\ UNCHANGED <<cmd, pc, flags, args, libCalls, kvars, svars, dvars,
                   ctxCancelled, notified, signalChan, sigsSent, sigsQueued,
                   logErr, cancelCalls, stopCalls, stopDone, cleanupSends,
                   sigAtSelect>>

\* Line 301.
SelectCancel ==
    /\ Alive
    /\ selPc = "cancel"
    /\ ctxCancelled' = TRUE
    /\ cancelCalls' = cancelCalls + 1
    /\ selPc' = "stop"
    /\ UNCHANGED <<cvars, kvars, svars, dvars, notified, signalChan, sigsSent,
                   sigsQueued, logPc, logErr, selBranch, stopCalls, stopDone,
                   cleanupSends, sigAtSelect>>

\* ProjectStop is started in a goroutine of its own and not waited for.
SelectStopCall_Async ==
    /\ Alive
    /\ selPc = "stop"
    /\ stopCalls' = stopCalls + 1
    /\ selPc' = "sendCleanup"
    /\ UNCHANGED <<cvars, kvars, svars, dvars, ctxCancelled, notified,
                   signalChan, sigsSent, sigsQueued, logPc, logErr, selBranch,
                   cancelCalls, stopDone, cleanupSends, sigAtSelect>>

\* Line 302: ProjectStop is entered ...
SelectStopCall ==
    /\ Alive
    /\ selPc = "stop"
    /\ stopCalls' = stopCalls + 1
    /\ selPc' = "inStop"
    /\ UNCHANGED <<cvars, kvars, svars, dvars, ctxCancelled, notified,
                   signalChan, sigsSent, sigsQueued, logPc, logErr, selBranch,
                   cancelCalls, stopDone, cleanupSends, sigAtSelect>>

\* ... and returns; what it returns is dropped.
SelectStopReturn ==
    /\ Alive
    /\ selPc = "inStop"
    /\ \E err \in LibErrors :
          libCalls' = Append(libCalls, Call("Stop", err))
    /\ stopDone' = stopDone + 1
    /\ selPc' = "sendCleanup"
    /\ UNCHANGED <<cmd, pc, flags, args, result, kvars, svars, dvars,
                   ctxCancelled, notified, signalChan, sigsSent, sigsQueued,
                   logPc, logErr, selBranch, cancelCalls, stopCalls,
                   cleanupSends, sigAtSelect>>

\* The select sits in a for loop: after the send the goroutine selects again.
UpReceive_SelectLoops ==
    /\ Alive
    /\ pc = "waitCleanup"
    /\ selPc = "sendCleanup"
    /\ cleanupSends' = cleanupSends + 1
    /\ selPc' = "select"
    /\ pc' = "return"
    /\ UNCHANGED <<cmd, flags, args, result, libCalls, kvars, svars, dvars,
                   ctxCancelled, notified, signalChan, sigsSent, sigsQueued,
                   logPc, logErr, selBranch, cancelCalls, stopCalls, stopDone,
                   sigAtSelect>>

\* Lines 303/308 and 311: the select goroutine hands its value to the main
\* flow over the unbuffered cleanupDone and ends.
UpReceive ==
    /\ Alive
    /\ pc = "waitCleanup"
    /\ selPc = "sendCleanup"
    /\ cleanupSends' = cleanupSends + 1
    /\ selPc' = "exit"
    /\ pc' = "return"
    /\ UNCHANGED <<cmd, flags, args, result, libCalls, kvars, svars, dvars,
                   ctxCancelled, notified, signalChan, sigsSent, sigsQueued,
                   logPc, logErr, selBranch, cancelCalls, stopCalls, stopDone,
                   sigAtSelect>>

\* Line 312.
UpReturn ==
    /\ Alive
    /\ pc = "return"
    /\ result' = ReturnNil
    /\ pc' = "done"
    /\ UNCHANGED <<cmd, flags, args, libCalls, kvars, svars, dvars, uvars>>

ProjectUp ==
    \/ UpCall
    \/ UpDetached
    \/ UpForeground
    \/ Signal
    \/ LogReturn
    \/ SelectSignal
    \/ SelectErr
    \/ SelectCancel
    \/ SelectStopCall
    \/ SelectStopReturn
    \/ UpReceive
    \/ UpReturn

\* ========================================================= specifications
IdleKuberVars ==
    /\ kpc = "idle"
    /\ configs = <<>>
    /\ remaining = {}
    /\ cur = ""
    /\ rc = NoRC
    /\ sc = NoSC
    /\ submitted = <<>>
    /\ kfatal = ""

IdleCmdVars ==
    /\ cmd = "kuber"
    /\ pc = "idle"
    /\ flags = [d |-> FALSE, force |-> FALSE, ignorePull |-> FALSE]
    /\ args = <<>>
    /\ result = Running
    /\ libCalls = <<>>
    /\ argIdx = 1
    /\ servicesScale = <<>>
    /\ callback = FALSE
    /\ stdin = [closed |-> TRUE, line |-> <<>>]
    /\ answerOK = "none"
    /\ ctxCancelled = FALSE
    /\ notified = FALSE
    /\ signalChan = 0
    /\ sigsSent = 0
    /\ sigsQueued = 0
    /\ logPc = "idle"
    /\ logErr = NoErr
    /\ selPc = "idle"
    /\ selBranch = "none"
    /\ cancelCalls = 0
    /\ stopCalls = 0
    /\ stopDone = 0
    /\ cleanupSends = 0
    /\ sigAtSelect = FALSE

Init == InitCmdVars /\ IdleKuberVars

Next ==
    \/ ProjectPs
    \/ ProjectPort
    \/ ProjectStop
    \/ ProjectDown
    \/ ProjectBuild
    \/ ProjectCreate
    \/ ProjectUp
    \/ ProjectRun
    \/ ProjectStart
    \/ ProjectRestart
    \/ ProjectLog
    \/ ProjectPull
    \/ ProjectDelete
    \/ ProjectKill
    \/ ProjectPause
    \/ ProjectUnpause
    \/ ProjectScale

Spec == Init /\ [][Next]_vars

InitKuber == InitKuberVars /\ IdleCmdVars

NextKuber == ProjectKuber

SpecKuber == InitKuber /\ [][NextKuber]_vars

\* ================================================================= claims
\* Text of a decimal integer: an optional sign and at least one digit.
IsIntegerText(t) ==
    LET digits == IF t # <<>> /\ (t[1] = "+" \/ t[1] = "-")
                  THEN SubSeq(t, 2, Len(t)) ELSE t
    IN  /\ Len(digits) >= 1
        /\ \A i \in 1..Len(digits) : digits[i] \in {Digits[k] : k \in 1..10}

KnownRestart == {"", "always", "no", "on-failure"}

BadRestart == \E n \in DOMAIN configs : configs[n].Restart \notin KnownRestart

BadPort ==
    \E n \in DOMAIN configs : \E i \in 1..Len(configs[n].Ports) :
        ~IsIntegerText(configs[n].Ports[i])

AllValid == ~BadRestart /\ ~BadPort

\* C2: a descriptor with an unknown restart policy ends the run fatally, and
\* no Create call for any service has been issued when it ends.
C2_FatalBeforeAnySubmission ==
    BadRestart =>
        /\ kpc # "done"
        /\ kpc = "fatal" => submitted = <<>>

\* C3: a descriptor with a non-numeric port ends the run fatally, and no
\* Create call for any service has been issued when it ends.
C3_BadPortBeforeAnySubmission ==
    BadPort =>
        /\ kpc # "done"
        /\ kpc = "fatal" => Len(submitted) = 0

Building == {"containerPorts", "servicePorts", "restart", "createRC", "createSVC"}

\* C4: from construction to submission, and in every submitted descriptor,
\* the controller's selector, its pod template's labels and the network
\* service's selector are all {"service": <service name>}.
C4_SelectorsAgree ==
    /\ kpc \in Building =>
          /\ rc.Selector = [service |-> cur]
          /\ rc.TemplateLabels = [service |-> cur]
          /\ sc.Selector = [service |-> cur]
    /\ \A i \in 1..Len(submitted) :
          /\ submitted[i].obj.Selector = [service |-> submitted[i].obj.Name]
          /\ submitted[i].kind = "rc" =>
                submitted[i].obj.TemplateLabels = submitted[i].obj.Selector
          /\ (submitted[i].kind = "svc" /\ i > 1) =>
                submitted[i].obj.Selector = submitted[i - 1].obj.Selector

C4_Witness ==
    /\ kpc = "done"
    /\ Len(submitted) = 4
    /\ submitted[3].kind = "rc"
    /\ submitted[4].kind = "svc"
    /\ submitted[4].obj.Selector = submitted[3].obj.TemplateLabels

Visited == DOMAIN configs \ remaining

\* C7: with valid ports and restart policies everywhere, every service has
\* its replication controller submitted and then its network service,
\* whatever the Create calls return, and the loop visits every service.
C7_BothSubmittedBestEffort ==
    (AllValid /\ kpc \notin {"idle", "start"} /\ kfatal \notin {"parse", "mkdir", "readconfig", "noserver"}) =>
        /\ kpc # "fatal"
        /\ \A i \in 1..Len(submitted) :
              /\ (i % 2 = 1) => submitted[i].kind = "rc"
              /\ (i % 2 = 0) =>
                    /\ submitted[i].kind = "svc"
                    /\ submitted[i].obj.Name = submitted[i - 1].obj.Name
        /\ {submitted[i].obj.Name : i \in 1..Len(submitted)} \subseteq Visited
        /\ Len(submitted) = 2 * Cardinality(Visited)
                            - (IF kpc \in {"containerPorts", "servicePorts", "restart", "createRC"}
                               THEN 2 ELSE IF kpc = "createSVC" THEN 1 ELSE 0)
        /\ kpc = "done" =>
              /\ Visited = DOMAIN configs
              /\ \A n \in DOMAIN configs : \E i \in 1..Len(submitted) :
                    /\ submitted[i].kind = "rc"
                    /\ submitted[i].obj.Name = n

C7_Witness ==
    /\ kpc = "done"
    /\ AllValid
    /\ Len(submitted) = 4
    /\ ~submitted[1].ok
    /\ submitted[2].kind = "svc"
    /\ submitted[2].obj.Name = submitted[1].obj.Name

\* C1: in a foreground up, once a signal has reached signalChan while the
\* select goroutine was still to choose, the run ends with ProjectStop
\* invoked exactly once and ProjectUp returning nil.
C1_StopOnceExitZero ==
    (cmd = "up" /\ sigAtSelect /\ ~Alive) =>
        /\ stopCalls = 1
        /\ result = ReturnNil

RECURSIVE AfterFirstEq(_)
AfterFirstEq(a) ==
    IF a = <<>> THEN <<>>
    ELSE IF Head(a) = "=" THEN Tail(a) ELSE AfterFirstEq(Tail(a))

Malformed(a) ==
    \/ \A i \in 1..Len(a) : a[i] # "="
    \/ ~IsIntegerText(AfterFirstEq(a))

ScaleCalled == \E i \in 1..Len(libCalls) : libCalls[i].fn = "Scale"

\* C5: when any scale argument has no '=' or a non-integer text after its
\* first '=', the command ends with exit code 2 and p.Scale is never called.
C5_MalformedScaleArgument ==
    (cmd = "scale" /\ \E i \in 1..Len(args) : Malformed(args[i])) =>
        /\ ~ScaleCalled
        /\ pc = "done" => (result.kind = "exit" /\ result.code = 2)

C5_Witness ==
    /\ cmd = "scale"
    /\ pc = "done"
    /\ Len(args) = 2
    /\ ~Malformed(args[1])
    /\ Malformed(args[2])
    /\ \E i \in 1..Len(args[2]) : args[2][i] = "="
    /\ result.code = 2
    /\ ~ScaleCalled

Yes == {<<"y">>, <<"Y">>}

\* C6 as stated: the callback returns true only when the line read is
\* exactly "y" or "Y"; with --force no callback is registered.
C6_TrueOnlyForExactLine ==
    cmd = "delete" =>
        /\ answerOK = "true" => (~stdin.closed /\ stdin.line \in Yes)
        /\ (flags.force /\ pc # "start") => ~callback

RECURSIVE StripLeft(_)
StripLeft(l) == IF l # <<>> /\ l[1] = " " THEN StripLeft(Tail(l)) ELSE l

RECURSIVE StripRight(_)
StripRight(l) ==
    IF l # <<>> /\ l[Len(l)] = " " THEN StripRight(SubSeq(l, 1, Len(l) - 1)) ELSE l

\* C6 amended: the callback returns true exactly when the read succeeded and
\* the line, leading and trailing blanks apart, is "y" or "Y", and false
\* otherwise; with --force no callback is registered, without it one is.
C6_TrueExactlyForYesWord ==
    cmd = "delete" =>
        /\ answerOK # "none" =>
              (answerOK = "true" <=>
                  (~stdin.closed /\ StripRight(StripLeft(stdin.line)) \in Yes))
        /\ (flags.force /\ pc # "start") => (~callback /\ answerOK = "none")
        /\ (~flags.force /\ pc # "start") => callback

C6_Witness ==
    /\ cmd = "delete"
    /\ answerOK = "true"
    /\ stdin.line = <<" ", "y">>

Foreground == cmd = "up" /\ ~flags.d

\* C8: at most one value is ever sent, or waiting to be sent, on
\* cleanupDone; the main flow is past its receive only after that one send.
C8_OneCompletionSignal ==
    cmd = "up" =>
        /\ cleanupSends + (IF selPc = "sendCleanup" THEN 1 ELSE 0) <= 1
        /\ pc \in {"start", "afterUp", "waitCleanup"} => cleanupSends = 0
        /\ (pc = "return" \/ (pc = "done" /\ ~flags.d /\ result = ReturnNil)) =>
              cleanupSends = 1

C8_Witness ==
    /\ Foreground
    /\ pc = "done"
    /\ result = ReturnNil
    /\ cleanupSends = 1
    /\ selPc = "exit"

PrimaryFn(c) ==
    CASE c = "ps" -> "Ps"           [] c = "port" -> "Port"
      [] c = "stop" -> "Stop"       [] c = "down" -> "Down"
      [] c = "build" -> "Build"     [] c = "create" -> "Create"
      [] c = "up" -> "Up"           [] c = "run" -> "Run"
      [] c = "start" -> "Start"     [] c = "restart" -> "Restart"
      [] c = "log" -> "Log"         [] c = "pull" -> "Pull"
      [] c = "delete" -> "Delete"   [] c = "kill" -> "Kill"
      [] c = "pause" -> "Pause"     [] c = "unpause" -> "Unpause"
      [] c = "scale" -> "Scale"     [] OTHER -> ""

\* C9 as stated: whenever the library call an action delegates to returns a
\* non-nil error, the action returns an exit error with that message and
\* status 1, whatever the flags.
C9_LibraryErrorIsExitOne ==
    \A i \in 1..Len(libCalls) :
        (libCalls[i].fn = PrimaryFn(cmd) /\ ~libCalls[i].err.nil) =>
            result = NewExitError(libCalls[i].err.msg, 1)

\* C9 amended: the same, except that pull with ignore-pull-failures set
\* returns nil when p.Pull fails.
C9_LibraryErrorIsExitOneUnlessIgnored ==
    \A i \in 1..Len(libCalls) :
        (libCalls[i].fn = PrimaryFn(cmd) /\ ~libCalls[i].err.nil) =>
            IF cmd = "pull" /\ flags.ignorePull
            THEN result = ReturnNil
            ELSE result = NewExitError(libCalls[i].err.msg, 1)

C9_Witness ==
    /\ cmd = "pull"
    /\ ~flags.ignorePull
    /\ Len(libCalls) = 1
    /\ ~libCalls[1].err.nil
    /\ result = NewExitError(libCalls[1].err.msg, 1)

\* C10: on the signal branch the context is cancelled, then the stop action
\* runs to completion, then completion is signalled, each once; the main
\* flow does not return before the stop action has finished, and the context
\* is never cancelled unless a signal was received.
C10_CancelStopSignalInOrder ==
    cmd = "up" =>
        /\ cancelCalls <= 1 /\ stopCalls <= 1 /\ stopDone <= stopCalls
        /\ ctxCancelled <=> cancelCalls = 1
        /\ stopCalls = 1 => cancelCalls = 1
        /\ selBranch = "signal" =>
              /\ sigsQueued >= 1
              /\ selPc \in {"sendCleanup", "exit"} =>
                    (cancelCalls = 1 /\ stopCalls = 1 /\ stopDone = 1)
              /\ cleanupSends <= stopDone
              /\ pc \in {"return", "done"} => (stopDone = 1 /\ cleanupSends = 1)
        /\ selBranch # "signal" =>
              (~ctxCancelled /\ cancelCalls = 0 /\ stopCalls = 0)

C10_Witness ==
    /\ Foreground
    /\ selBranch = "signal"
    /\ pc = "done"
    /\ cancelCalls = 1
    /\ stopDone = 1
    /\ cleanupSends = 1

\* C11: when the select takes the log-result branch, a nil result signals
\* completion directly, the stop action is not invoked and ProjectUp, when it
\* returns, returns nil; a non-nil result ends the process fatally, with no
\* completion signal and never a success result.
C11_LogResultBranch ==
    (cmd = "up" /\ selBranch = "err") =>
        /\ stopCalls = 0 /\ cancelCalls = 0
        /\ logPc = "exit"
        /\ logErr.nil =>
              /\ selPc \in {"sendCleanup", "exit"}
              /\ result \in {Running, ReturnNil}
              /\ selPc = "exit" => cleanupSends = 1
              /\ pc = "done" => (result = ReturnNil /\ cleanupSends = 1)
        /\ ~logErr.nil =>
              /\ result = Fatal(logErr.msg)
              /\ cleanupSends = 0
              /\ pc = "waitCleanup"

C11_Witness ==
    /\ Foreground
    /\ selBranch = "err"
    /\ logErr.nil
    /\ pc = "done"
    /\ result = ReturnNil
    /\ stopCalls = 0
    /\ cleanupSends = 1

====
